---- MODULE Spec2Model ----
(***************************************************************************)
(* Transaction-analysis pipeline: Record Sanitizer (preprocessing.py),     *)
(* Aggregator and Velocity Engine (features.py).                           *)
(*                                                                         *)
(* Time is counted in ticks since 1970-01-01 00:00; TicksPerDay ticks make *)
(* a calendar day and CalMonthDays days make a calendar month.  float64    *)
(* values are modelled exactly: a finite value is n/d * 10^e in lowest     *)
(* terms, and inf, -inf and nan are separate values.  Rounding and         *)
(* overflow of float64 are outside the model.                              *)
(***************************************************************************)
EXTENDS Integers, Sequences, FiniteSets, TLC

VARIABLES input, cfg, frame, sanitized, agg, vel, pc

vars == <<input, cfg, frame, sanitized, agg, vel, pc>>

---------------------------------------------------------------------------
(* Bounds of the model *)

MaxRawRows == 2
MaxAggRows == 3
MaxVelRows == 2

---------------------------------------------------------------------------
(* Granularity of the clock and of the calendar *)

TicksPerDay == 2
CalMonthDays == 30

(* Constants of the program: max_date default (days after now), cap_days *)
(* default, days_per_month, and the exponent of eps = 1e-9               *)

DefaultMaxDateDays == 365
DefaultCapDays == 1825
DaysPerMonth == 30
EpsExp == 9

---------------------------------------------------------------------------
(* float64 values *)

RECURSIVE GCD(_, _)
GCD(a, b) == IF b = 0 THEN a ELSE GCD(b, a % b)

Abs(x) == IF x < 0 THEN -x ELSE x

RECURSIVE Pow10(_)
Pow10(k) == IF k = 0 THEN 1 ELSE 10 * Pow10(k - 1)

NaN == [k |-> "nan", n |-> 0, d |-> 1, e |-> 0]
PosInf == [k |-> "inf", n |-> 0, d |-> 1, e |-> 0]
NegInf == [k |-> "ninf", n |-> 0, d |-> 1, e |-> 0]

\* n/d * 10^e in lowest terms with d > 0
Fin(n, d, e) ==
    IF n = 0 THEN [k |-> "fin", n |-> 0, d |-> 1, e |-> 0]
    ELSE LET g == GCD(Abs(n), Abs(d))
             s == IF d < 0 THEN -1 ELSE 1
         IN  [k |-> "fin", n |-> s * (n \div g), d |-> s * (d \div g), e |-> e]

Num(v) == Fin(v, 1, 0)

IsFinite(x) == x.k = "fin"

IsZero(x) == x.k = "fin" /\ x.n = 0

Sign(x) ==
    CASE x.k = "inf" -> 1
      [] x.k = "ninf" -> -1
      [] x.k = "fin" -> (IF x.n > 0 THEN 1 ELSE IF x.n < 0 THEN -1 ELSE 0)
      [] OTHER -> 0

\* x * K > y for integers x, y and K > 0, computed without forming x * K
ScaledGt(x, K, y) == x > (y \div K)

\* x > y * K for integers x, y and K > 0, computed without forming y * K
GtScaled(x, y, K) == y < -((-x) \div K)

FinGt(a, b) ==
    LET x == a.n * b.d
        y == b.n * a.d
    IN  IF a.e >= b.e THEN ScaledGt(x, Pow10(a.e - b.e), y)
        ELSE GtScaled(x, y, Pow10(b.e - a.e))

\* IEEE comparison a > b: false whenever either side is nan
FGt(a, b) ==
    CASE a.k = "nan" \/ b.k = "nan" -> FALSE
      [] a.k = "inf" -> b.k # "inf"
      [] a.k = "ninf" -> FALSE
      [] b.k = "inf" -> FALSE
      [] b.k = "ninf" -> TRUE
      [] OTHER -> FinGt(a, b)

FinAdd(a, b) ==
    LET m == IF a.e < b.e THEN a.e ELSE b.e
        an == a.n * Pow10(a.e - m)
        bn == b.n * Pow10(b.e - m)
    IN  Fin(an * b.d + bn * a.d, a.d * b.d, m)

\* IEEE addition
FAdd(a, b) ==
    CASE a.k = "nan" \/ b.k = "nan" -> NaN
      [] a.k = "inf" -> (IF b.k = "ninf" THEN NaN ELSE PosInf)
      [] a.k = "ninf" -> (IF b.k = "inf" THEN NaN ELSE NegInf)
      [] b.k = "inf" -> PosInf
      [] b.k = "ninf" -> NegInf
      [] OTHER -> FinAdd(a, b)

\* IEEE division as numpy performs it on float64 columns (no exception)
FDiv(a, b) ==
    CASE a.k = "nan" \/ b.k = "nan" -> NaN
      [] a.k # "fin" /\ b.k # "fin" -> NaN
      [] a.k # "fin" -> (IF Sign(a) * (IF Sign(b) < 0 THEN -1 ELSE 1) > 0
                          THEN PosInf ELSE NegInf)
      [] b.k # "fin" -> Num(0)
      [] IsZero(b) -> (IF a.n = 0 THEN NaN ELSE IF a.n > 0 THEN PosInf ELSE NegInf)
      [] OTHER -> Fin(a.n * b.d, a.d * b.n, a.e - b.e)

RECURSIVE FSum(_)
FSum(s) == IF s = <<>> THEN Num(0) ELSE FAdd(Head(s), FSum(Tail(s)))

FMean(s) == FDiv(FSum(s), Num(Len(s)))

---------------------------------------------------------------------------
(* Cells, rows and frames *)

\* date cells: a date string, an unparseable string, None, a Timestamp, NaT
Str(t) == [k |-> "str", t |-> t]
BadDate == [k |-> "bad", t |-> 0]
NoneDate == [k |-> "none", t |-> 0]
Ts(t) == [k |-> "ts", t |-> t]
NaT == [k |-> "nat", t |-> 0]
NoCell == [k |-> "absent", t |-> 0]

\* amount cells before coercion: a number is a float64 value, NumStr is the
\* text of a number, BadAmt is other text, NoneAmt is None
NumStr(v) == [k |-> "numstr", n |-> v, d |-> 1, e |-> 0]
BadAmt == [k |-> "bad", n |-> 0, d |-> 1, e |-> 0]
NoneAmt == [k |-> "none", n |-> 0, d |-> 1, e |-> 0]
NoAmt == [k |-> "absent", n |-> 0, d |-> 1, e |-> 0]

Accounts == <<"A", "B">>

AcctRank(a) == CHOOSE i \in 1..Len(Accounts) : Accounts[i] = a

Row(a, dt, am, rf) == [acct |-> a, date |-> dt, amt |-> am, ref |-> rf, days |-> 0]

Frame(cols, rows) == [cols |-> cols, rows |-> rows]

NoFrame == Frame({}, <<>>)

---------------------------------------------------------------------------
(* Record Sanitizer: preprocessing.py *)

\* variant: a value that is already a Timestamp is coerced to NaT
ToDatetimeNoReparse(c) == IF c.k = "str" THEN Ts(c.t) ELSE NaT

\* pd.to_datetime(..., errors="coerce")
ToDatetime(c) == IF c.k \in {"str", "ts"} THEN Ts(c.t) ELSE NaT

\* max_date is None: now + 365 days
MaxDateOf(c) ==
    IF c.max_date = <<>> THEN c.now + DefaultMaxDateDays * TicksPerDay
    ELSE c.max_date[1]

\* df.loc[df[date_col] < min_date] = NaT; df.loc[df[date_col] > max_date] = NaT
Clamp(d, lo, hi) ==
    IF d.k # "ts" THEN d
    ELSE IF d.t < lo THEN NaT ELSE IF d.t > hi THEN NaT ELSE d

\* (ref - date).dt.days: the floor of the difference in days, NaN (<<>>) for NaT
TimedeltaDays(ref, d) ==
    IF ref.k = "ts" /\ d.k = "ts" THEN <<(ref.t - d.t) \div TicksPerDay>> ELSE <<>>

\* variant: no lower bound
ClipNoLower(x, lo, hi) ==
    IF x = <<>> THEN x
    ELSE IF x[1] > hi THEN <<hi>> ELSE x

\* Series.clip(lower, upper): NaN stays NaN
Clip(x, lo, hi) ==
    IF x = <<>> THEN x
    ELSE IF x[1] < lo THEN <<lo>> ELSE IF x[1] > hi THEN <<hi>> ELSE x

\* Series.fillna(v)
FillnaDays(x, v) == IF x = <<>> THEN v ELSE x[1]

CleanRow(r, f, c) ==
    LET d == Clamp(ToDatetime(r.date), c.min_date, MaxDateOf(c))
        ref == IF c.use_ref /\ "ref" \in f.cols THEN ToDatetime(r.ref) ELSE Ts(c.now)
        days == FillnaDays(Clip(TimedeltaDays(ref, d), 0, c.cap_days), c.cap_days)
    IN  [r EXCEPT !.date = d, !.days = days]

clean_transaction_dates(f, c) ==
    IF "date" \notin f.cols THEN f
    ELSE Frame(f.cols \cup {"_days_since_date"},
               [i \in 1..Len(f.rows) |-> CleanRow(f.rows[i], f, c)])

\* pd.to_numeric(..., errors="coerce")
ToNumeric(a) ==
    CASE a.k \in {"fin", "numstr"} -> Fin(a.n, a.d, a.e)
      [] a.k = "inf" -> PosInf
      [] a.k = "ninf" -> NegInf
      [] OTHER -> NaN

\* variant: infinities are kept
FillAmountKeepInf(x, fill) == IF x.k = "nan" THEN fill ELSE x

\* df.loc[~np.isfinite(...)] = nan; fillna(fill_value)
FillAmount(x, fill) ==
    LET y == IF IsFinite(x) THEN x ELSE NaN
    IN  IF y.k = "nan" THEN fill ELSE y

SanitizeRow(r, c) == [r EXCEPT !.amt = FillAmount(ToNumeric(r.amt), c.fill_value)]

sanitize_amounts(f, c) ==
    IF "amount" \notin f.cols THEN f
    ELSE Frame(f.cols, [i \in 1..Len(f.rows) |-> SanitizeRow(f.rows[i], c)])

---------------------------------------------------------------------------
(* Aggregator: features.py, daily_and_monthly_aggregates *)

Returned(rows) == [status |-> "returned", error |-> "", key |-> "", rows |-> rows]

Raised(type, key) == [status |-> "raised", error |-> type, key |-> key, rows |-> <<>>]

NotCalled == [status |-> "none", error |-> "", key |-> "", rows |-> <<>>]

\* variant: the timestamp is not floored
FloorDayNone(d) == d

\* Series.dt.floor("D")
FloorDay(d) ==
    IF d.k = "ts" THEN Ts((d.t \div TicksPerDay) * TicksPerDay) ELSE NaT

\* Series.dt.to_period("M"): the index of the calendar month
ToPeriodM(d) ==
    IF d.k = "ts" THEN Ts((d.t \div TicksPerDay) \div CalMonthDays) ELSE NaT

\* variant: dropna=False
KeepEveryKey(key) == TRUE

\* groupby(..., dropna=True): a group key holding NaT forms no group
KeepKey(key) == key[2].k # "nat"

\* groupby(..., sort=True): keys ascending by account, then by time, NaT last
KeyLeq(x, y) ==
    \/ AcctRank(x[1]) < AcctRank(y[1])
    \/ /\ x[1] = y[1]
       /\ \/ y[2].k = "nat"
          \/ x[2].k = "ts" /\ y[2].k = "ts" /\ x[2].t <= y[2].t

RECURSIVE SortKeys(_)
SortKeys(S) ==
    IF S = {} THEN <<>>
    ELSE LET m == CHOOSE x \in S : \A y \in S : KeyLeq(x, y)
         IN  <<m>> \o SortKeys(S \ {m})

DayKey(r) == <<r.acct, FloorDay(r.date)>>

MonthKey(r) == <<r.acct, ToPeriodM(r.date)>>

\* the amounts of the rows of one group, in row order
RECURSIVE GroupAmounts(_, _, _)
GroupAmounts(rows, key, byMonth) ==
    IF rows = <<>> THEN <<>>
    ELSE LET r == Head(rows)
             k == IF byMonth THEN MonthKey(r) ELSE DayKey(r)
         IN  (IF k = key THEN <<r.amt>> ELSE <<>>)
                 \o GroupAmounts(Tail(rows), key, byMonth)

\* groupby([account_col, "txn_date_only"])[amount_col].sum()
DailyTotals(rows) ==
    LET keys == SortKeys({k \in {DayKey(rows[i]) : i \in 1..Len(rows)} : KeepKey(k)})
    IN  [i \in 1..Len(keys) |->
            [acct |-> keys[i][1], day |-> keys[i][2],
             daily_amount |-> FSum(GroupAmounts(rows, keys[i], FALSE))]]

\* groupby([account_col, "txn_month"])[amount_col].sum()
MonthlyTotals(rows) ==
    LET keys == SortKeys({k \in {MonthKey(rows[i]) : i \in 1..Len(rows)} : KeepKey(k)})
    IN  [i \in 1..Len(keys) |->
            [acct |-> keys[i][1], month |-> keys[i][2],
             total |-> FSum(GroupAmounts(rows, keys[i], TRUE))]]

RECURSIVE TotalsOf(_, _)
TotalsOf(monthly, a) ==
    IF monthly = <<>> THEN <<>>
    ELSE (IF Head(monthly).acct = a THEN <<Head(monthly).total>> ELSE <<>>)
             \o TotalsOf(Tail(monthly), a)

\* variant: the mean of the account's amounts, with no monthly totals
BaselinePerTransaction(rows, a) ==
    LET amts == [i \in 1..Len(SelectSeq(rows, LAMBDA r : r.acct = a /\ r.date.k = "ts")) |->
                    SelectSeq(rows, LAMBDA r : r.acct = a /\ r.date.k = "ts")[i].amt]
    IN  IF amts = <<>> THEN <<>> ELSE <<FMean(amts)>>

\* monthly2: the mean of the account's monthly totals; <<>> when the account
\* has no monthly total (the left merge then yields NaN)
Baseline(rows, a) ==
    LET totals == TotalsOf(MonthlyTotals(rows), a)
    IN  IF totals = <<>> THEN <<>> ELSE <<FMean(totals)>>

\* out["monthly_baseline"].fillna(0.0)
FillnaBaseline(b) == IF b = <<>> \/ b[1].k = "nan" THEN Num(0) ELSE b[1]

\* daily.merge(monthly2, on=account_col, how="left") and the fillna
MergeBaseline(daily, rows) ==
    [i \in 1..Len(daily) |->
        [acct |-> daily[i].acct, day |-> daily[i].day,
         daily_amount |-> daily[i].daily_amount,
         monthly_baseline |-> FillnaBaseline(Baseline(rows, daily[i].acct))]]

IsDatetimeColumn(f) == \A i \in 1..Len(f.rows) : f.rows[i].date.k \in {"ts", "nat"}

\* the first monthly reduction selects the column named "amount" from the
\* monthly totals, whatever amount_col is
MonthlySelects(c) == "amount"

\* variant: a missing date column is passed over and an empty frame returned
MissingDatePassthrough(f) == Returned(<<>>)

\* if date_col not in df.columns: raise KeyError
MissingDate(f) == Raised("KeyError", "date_col")

daily_and_monthly_aggregates(f, c) ==
    IF "date" \notin f.cols THEN MissingDate(f)
    ELSE IF ~IsDatetimeColumn(f) THEN Raised("AttributeError", ".dt")
    ELSE IF "amount" \notin f.cols THEN Raised("KeyError", c.amount_col)
    ELSE IF MonthlySelects(c) # c.amount_col THEN Raised("KeyError", MonthlySelects(c))
    ELSE Returned(MergeBaseline(DailyTotals(f.rows), f.rows))

---------------------------------------------------------------------------
(* Velocity Engine: features.py, compute_velocity_features *)

Eps == Fin(1, 1, -EpsExp)

\* variant: zero is left in place
ReplaceZeroNone(x) == x

\* Series.replace(0, eps)
ReplaceZero(x) == IF IsZero(x) THEN Eps ELSE x

\* variant: greater than or equal
FlagGeq(ratio, threshold) == IF FGt(ratio, threshold) \/ ratio = threshold THEN 1 ELSE 0

\* (ratio > threshold).astype(int)
Flag(ratio, threshold) == IF FGt(ratio, threshold) THEN 1 ELSE 0

VelocityRow(r, c) ==
    LET est == ReplaceZero(FDiv(r.monthly_baseline, Num(DaysPerMonth)))
        ratio == FDiv(r.daily_amount, est)
    IN  [acct |-> r.acct, day |-> r.day, daily_amount |-> r.daily_amount,
         monthly_baseline |-> r.monthly_baseline,
         velocity_ratio |-> ratio, velocity_flag |-> Flag(ratio, c.threshold)]

compute_velocity_features(rows, c) == [i \in 1..Len(rows) |-> VelocityRow(rows[i], c)]

---------------------------------------------------------------------------
(* Sample inputs *)

\* the clock: noon of day 20000
NowTick == 20000 * TicksPerDay + 1

Epoch == 0
BeforeEpoch == 0 - TicksPerDay
DayA == (20000 - 2) * TicksPerDay
DayALate == DayA + 1
DayB == DayA + TicksPerDay
PrevMonth == DayA - CalMonthDays * TicksPerDay
Tomorrow == NowTick + TicksPerDay
DefaultMax == NowTick + DefaultMaxDateDays * TicksPerDay
BeyondMax == DefaultMax + 1

AllCols == {"account", "date", "amount"}

DefaultCfg ==
    [min_date |-> Epoch, max_date |-> <<>>, cap_days |-> DefaultCapDays,
     fill_value |-> Num(0), use_ref |-> FALSE,
     amount_col |-> "Transaction_Amount", threshold |-> Num(3), now |-> NowTick]

AmountColNames == {"Transaction_Amount", "amount"}

RECURSIVE SeqsUpTo(_, _)
SeqsUpTo(S, n) ==
    IF n = 0 THEN {<<>>}
    ELSE LET shorter == SeqsUpTo(S, n - 1)
         IN  shorter \cup {Append(q, x) : q \in {t \in shorter : Len(t) = n - 1}, x \in S}

RichDates ==
    {Str(BeforeEpoch), Str(Epoch), Str(DayA), Str(DayALate), Str(Tomorrow),
     Str(DefaultMax), Str(BeyondMax), BadDate, NoneDate}

RichAmounts == {Num(3), NumStr(100), Num(-1), BadAmt, NoneAmt, PosInf, NegInf, NaN}

\* every kind of date cell and every kind of amount cell, default configuration
RichRows ==
    {Row("A", d, Num(3), NoCell) : d \in RichDates}
        \cup {Row("A", Str(DayA), a, NoCell) : a \in RichAmounts}

\* two accounts, two months, signed amounts
MixedRows ==
    {Row(Accounts[i], d, a, NoCell) :
        i \in 1..Len(Accounts),
        d \in {Str(DayA), Str(DayB), Str(PrevMonth), BadDate},
        a \in {Num(-1), NumStr(3), BadAmt, PosInf}}

\* rows for the configurations other than the default
ConfigRows ==
    {Row("A", d, a, NoCell) :
        d \in {Str(Epoch), Str(DayA), Str(Tomorrow), BadDate},
        a \in {Num(3), BadAmt, PosInf}}

ConfigVariants ==
    {[DefaultCfg EXCEPT !.cap_days = cap, !.fill_value = fill,
                        !.max_date = mx, !.min_date = mn] :
        cap \in {0, 1, DefaultCapDays}, fill \in {Num(0), Num(7)},
        mx \in {<<>>, <<DayALate>>}, mn \in {Epoch, DayALate}}

\* frames with a reference-date column
RefRows ==
    {Row("A", d, Num(3), rf) :
        d \in {Str(DayA), Str(Tomorrow), BadDate},
        rf \in {Str(DayB), Str(Epoch), BadDate}}

\* frames that lack the date column or the amount column
NoDateRows == {Row("A", NoCell, a, NoCell) : a \in {Num(3), BadAmt}}

NoAmountRows == {Row("A", d, NoAmt, NoCell) : d \in {Str(DayA), BadDate}}

InitRest ==
    /\ frame = input
    /\ sanitized = NoFrame
    /\ agg = NotCalled
    /\ vel = <<>>
    /\ pc = "raw"

Init ==
    /\ \/ /\ input \in {Frame(AllCols, r) : r \in SeqsUpTo(RichRows, MaxRawRows)}
          /\ cfg = DefaultCfg
       \/ /\ input \in {Frame(AllCols, r) : r \in SeqsUpTo(MixedRows, MaxRawRows)}
          /\ cfg \in {[DefaultCfg EXCEPT !.amount_col = n] : n \in AmountColNames}
       \/ /\ input \in {Frame(AllCols, r) : r \in SeqsUpTo(ConfigRows, MaxRawRows)}
          /\ cfg \in ConfigVariants
       \/ /\ input \in {Frame(AllCols \cup {"ref"}, r) : r \in SeqsUpTo(RefRows, MaxRawRows)}
          /\ cfg \in {[DefaultCfg EXCEPT !.use_ref = u, !.cap_days = 1] : u \in BOOLEAN}
       \/ /\ input \in {Frame(AllCols \ {"date"}, r) : r \in SeqsUpTo(NoDateRows, MaxRawRows)}
                \cup {Frame(AllCols \ {"amount"}, r) : r \in SeqsUpTo(NoAmountRows, MaxRawRows)}
          /\ cfg \in {[DefaultCfg EXCEPT !.amount_col = n] : n \in AmountColNames}
    /\ InitRest

---------------------------------------------------------------------------
(* The pipeline: raw records -> Sanitizer -> Aggregator -> Velocity Engine *)

CleanTransactionDates ==
    /\ pc \in {"raw", "sanitized"}
    /\ frame' = clean_transaction_dates(frame, cfg)
    /\ pc' = IF pc = "raw" THEN "dated" ELSE "redated"
    /\ UNCHANGED <<input, cfg, sanitized, agg, vel>>

SanitizeAmounts ==
    /\ pc \in {"dated", "redated"}
    /\ frame' = sanitize_amounts(frame, cfg)
    /\ sanitized' = IF pc = "dated" THEN frame' ELSE sanitized
    /\ pc' = IF pc = "dated" THEN "sanitized" ELSE "resanitized"
    /\ UNCHANGED <<input, cfg, agg, vel>>

DailyAndMonthlyAggregates ==
    /\ pc = "sanitized"
    /\ agg' = daily_and_monthly_aggregates(frame, cfg)
    /\ pc' = IF agg'.status = "returned" THEN "aggregated" ELSE "raised"
    /\ UNCHANGED <<input, cfg, frame, sanitized, vel>>

ComputeVelocityFeatures ==
    /\ pc = "aggregated"
    /\ vel' = compute_velocity_features(agg.rows, cfg)
    /\ pc' = "scored"
    /\ UNCHANGED <<input, cfg, frame, sanitized, agg>>

Next ==
    \/ CleanTransactionDates
    \/ SanitizeAmounts
    \/ DailyAndMonthlyAggregates
    \/ ComputeVelocityFeatures

Spec == Init /\ [][Next]_vars

---------------------------------------------------------------------------
(* The Aggregator alone, called on frames the Sanitizer produced *)

AggRows ==
    {Row("A", d, a, NoCell) :
        d \in {Str(DayA), Str(DayALate), Str(DayB), Str(PrevMonth), BadDate},
        a \in {Num(-1), Num(3)}}
        \cup {Row("B", d, Num(3), NoCell) : d \in {Str(DayA), BadDate}}

Sanitize(f, c) == sanitize_amounts(clean_transaction_dates(f, c), c)

InitAgg ==
    /\ \/ /\ input \in {Frame(AllCols, r) : r \in SeqsUpTo(AggRows, MaxAggRows)}
          /\ cfg = [DefaultCfg EXCEPT !.amount_col = "amount"]
       \/ /\ input \in {Frame(AllCols, r) : r \in SeqsUpTo(AggRows, 1)}
                \cup {Frame(AllCols \ {"date"}, r) : r \in SeqsUpTo(NoDateRows, 1)}
          /\ cfg \in {[DefaultCfg EXCEPT !.amount_col = n] : n \in AmountColNames}
    /\ frame = Sanitize(input, cfg)
    /\ sanitized = frame
    /\ agg = NotCalled
    /\ vel = <<>>
    /\ pc = "sanitized"

NextAgg == DailyAndMonthlyAggregates

SpecAgg == InitAgg /\ [][NextAgg]_vars

---------------------------------------------------------------------------
(* The Velocity Engine alone, called on daily frames with a baseline *)

VelRows ==
    {[acct |-> "A", day |-> Ts(DayA), daily_amount |-> Num(a), monthly_baseline |-> b] :
        a \in {-100, 0, 90, 91, 100},
        b \in {Num(0), Num(900), Num(-900), Fin(5, 2, 0)}}

Thresholds == {Num(3), Num(0), Fin(5, 2, 0), Num(-3)}

InitVel ==
    /\ input = NoFrame
    /\ frame = NoFrame
    /\ sanitized = NoFrame
    /\ cfg \in {[DefaultCfg EXCEPT !.threshold = t] : t \in Thresholds}
    /\ agg \in {Returned(r) : r \in SeqsUpTo(VelRows, MaxVelRows)}
    /\ vel = <<>>
    /\ pc = "aggregated"

NextVel == ComputeVelocityFeatures

SpecVel == InitVel /\ [][NextVel]_vars

---------------------------------------------------------------------------
(* Properties *)

AggCalled == pc \in {"aggregated", "raised", "scored"}

AggReturned == AggCalled /\ agg.status = "returned"

\* the rows of account a whose date is known
KnownIdx(rows, a) == {i \in 1..Len(rows) : rows[i].acct = a /\ rows[i].date.k = "ts"}

RECURSIVE SumAmounts(_, _)
SumAmounts(rows, I) ==
    IF I = {} THEN 0
    ELSE LET i == CHOOSE j \in I : TRUE
         IN  rows[i].amt.n + SumAmounts(rows, I \ {i})

WholeAmounts(rows) ==
    \A i \in 1..Len(rows) : rows[i].amt.k = "fin" /\ rows[i].amt.d = 1 /\ rows[i].amt.e = 0

CalDay(t) == t \div TicksPerDay

CalMonth(t) == CalDay(t) \div CalMonthDays

OutIdx(a) == {j \in 1..Len(agg.rows) : agg.rows[j].acct = a}

AccountSet == {Accounts[i] : i \in 1..Len(Accounts)}

\* C1: whenever the input has the account, date and amount columns, under
\* the default column names or any others, the Aggregator returns the daily
\* aggregate with baseline and does not raise.
C1_AggregatorReturns ==
    (AggCalled /\ AllCols \subseteq frame.cols) => agg.status = "returned"

\* C2 as stated: with the date column absent the Aggregator fails with the
\* typed error SchemaError.
C2_RaisesSchemaError ==
    (AggCalled /\ "date" \notin frame.cols) =>
        (agg.status = "raised" /\ agg.error = "SchemaError")

\* C2 (amended): with the date column absent the Aggregator raises KeyError
\* for the date column, returns no rows, and leaves its input frame as it was.
C2_RaisesKeyError ==
    (AggCalled /\ "date" \notin frame.cols) =>
        /\ agg.status = "raised"
        /\ agg.error = "KeyError"
        /\ agg.key = "date_col"
        /\ agg.rows = <<>>
        /\ pc = "raised"
        /\ frame = sanitized

C2_Witness ==
    /\ pc = "raised"
    /\ "date" \notin frame.cols
    /\ Len(frame.rows) > 0
    /\ agg.error = "KeyError"

\* C3: every output row of an account carries the mean of the account's
\* monthly totals over the months in which it has records: the sum of its
\* known-date amounts divided by the number of those months; the same on
\* every row of the account and never null.
C3_BaselineIsMeanOfMonthlyTotals ==
    (AggReturned /\ WholeAmounts(frame.rows)) =>
        \A j \in 1..Len(agg.rows) :
            LET a == agg.rows[j].acct
                I == KnownIdx(frame.rows, a)
                months == {CalMonth(frame.rows[i].date.t) : i \in I}
            IN  /\ months # {}
                /\ IsFinite(agg.rows[j].monthly_baseline)
                /\ agg.rows[j].monthly_baseline
                       = Fin(SumAmounts(frame.rows, I), Cardinality(months), 0)
                /\ \A k \in OutIdx(a) :
                       agg.rows[k].monthly_baseline = agg.rows[j].monthly_baseline

\* an account with two records in one month and one in another, where the
\* mean of the monthly totals differs from the mean of the amounts
C3_Witness ==
    /\ AggReturned
    /\ \E a \in AccountSet :
           LET I == KnownIdx(frame.rows, a)
               months == {CalMonth(frame.rows[i].date.t) : i \in I}
           IN  /\ Cardinality(I) = 3
               /\ Cardinality(months) = 2
               /\ OutIdx(a) # {}
               /\ \A j \in OutIdx(a) :
                      agg.rows[j].monthly_baseline
                          # Fin(SumAmounts(frame.rows, I), Cardinality(I), 0)

SwapRows(f, i) ==
    Frame(f.cols, [j \in 1..Len(f.rows) |->
                      IF j = i THEN f.rows[i + 1]
                      ELSE IF j = i + 1 THEN f.rows[i] ELSE f.rows[j]])

\* C4: the output has exactly one row per (account, calendar day) of the
\* input records with a known date, its daily_amount is the sum of the
\* amounts of the records of that account on that day, and exchanging input
\* rows does not change the output.
C4_OneRowPerAccountDay ==
    (AggReturned /\ WholeAmounts(frame.rows)) =>
        LET rows == frame.rows
            keys == {<<rows[i].acct, CalDay(rows[i].date.t)>> :
                        i \in {k \in 1..Len(rows) : rows[k].date.k = "ts"}}
            outKey(j) == <<agg.rows[j].acct, CalDay(agg.rows[j].day.t)>>
        IN  /\ {outKey(j) : j \in 1..Len(agg.rows)} = keys
            /\ Len(agg.rows) = Cardinality(keys)
            /\ \A j \in 1..Len(agg.rows) :
                   /\ agg.rows[j].day.k = "ts"
                   /\ agg.rows[j].day.t = CalDay(agg.rows[j].day.t) * TicksPerDay
                   /\ agg.rows[j].daily_amount =
                          Num(SumAmounts(rows,
                                {i \in KnownIdx(rows, agg.rows[j].acct) :
                                    CalDay(rows[i].date.t) = CalDay(agg.rows[j].day.t)}))
            /\ \A i \in 1..(Len(rows) - 1) :
                   daily_and_monthly_aggregates(SwapRows(frame, i), cfg) = agg

\* two records of one account at different times of one day form one row
C4_Witness ==
    /\ AggReturned
    /\ \E i, k \in 1..Len(frame.rows) :
           /\ i < k
           /\ frame.rows[i].acct = frame.rows[k].acct
           /\ frame.rows[i].date.k = "ts" /\ frame.rows[k].date.k = "ts"
           /\ frame.rows[i].date.t # frame.rows[k].date.t
           /\ CalDay(frame.rows[i].date.t) = CalDay(frame.rows[k].date.t)
           /\ \E j \in 1..Len(agg.rows) :
                  /\ agg.rows[j].acct = frame.rows[i].acct
                  /\ agg.rows[j].daily_amount
                         = Num(frame.rows[i].amt.n + frame.rows[k].amt.n)
    /\ Len(agg.rows) >= 2

\* C5: a row whose monthly_baseline is exactly 0 gets the finite ratio
\* daily_amount / 1e-9, and daily_amount = 100 under the threshold 3.0 is
\* flagged.
C5_ZeroBaselineFiniteRatio ==
    pc = "scored" =>
        \A j \in 1..Len(vel) :
            IsZero(vel[j].monthly_baseline) =>
                LET a == vel[j].daily_amount
                IN  /\ IsFinite(vel[j].velocity_ratio)
                    /\ vel[j].velocity_ratio = Fin(a.n, a.d, a.e + EpsExp)
                    /\ (a = Num(100) /\ cfg.threshold = Num(3)) =>
                           vel[j].velocity_flag = 1

C5_Witness ==
    /\ pc = "scored"
    /\ cfg.threshold = Num(3)
    /\ \E j \in 1..Len(vel) :
           /\ vel[j].daily_amount = Num(100)
           /\ vel[j].monthly_baseline = Num(0)
           /\ vel[j].velocity_flag = 1

\* daily_amount / (monthly_baseline / 30) > threshold, in whole numbers; with
\* a zero baseline the divisor is 1e-9
RatioExceeds(a, b, t) ==
    LET lhs == a.n * DaysPerMonth * b.d * t.d
        rhs == t.n * a.d * b.n
    IN  IF b.n > 0 THEN lhs > rhs
        ELSE IF b.n < 0 THEN lhs < rhs
        ELSE a.n * t.d > ((t.n * a.d) \div Pow10(EpsExp))

\* C6: velocity_flag is 1 exactly when daily_amount / (monthly_baseline / 30)
\* is strictly greater than the threshold and 0 otherwise; daily_amount = 90
\* with monthly_baseline = 900 and threshold 3.0 gives ratio 3.0 and flag 0.
C6_FlagIffRatioExceedsThreshold ==
    pc = "scored" =>
        \A j \in 1..Len(vel) :
            LET a == vel[j].daily_amount
                b == vel[j].monthly_baseline
            IN  /\ vel[j].velocity_flag \in {0, 1}
                /\ vel[j].velocity_flag = 1 <=> RatioExceeds(a, b, cfg.threshold)
                /\ (a = Num(90) /\ b = Num(900) /\ cfg.threshold = Num(3)) =>
                       (vel[j].velocity_ratio = Num(3) /\ vel[j].velocity_flag = 0)

C6_Witness ==
    /\ pc = "scored"
    /\ cfg.threshold = Num(3)
    /\ \E j \in 1..Len(vel) :
           /\ vel[j].daily_amount = Num(90)
           /\ vel[j].monthly_baseline = Num(900)
           /\ vel[j].velocity_ratio = cfg.threshold
           /\ vel[j].velocity_flag = 0
    /\ \E j \in 1..Len(vel) :
           /\ vel[j].daily_amount = Num(91)
           /\ vel[j].monthly_baseline = Num(900)
           /\ vel[j].velocity_flag = 1

SanitizerDone == pc \notin {"raw", "dated"}

UnknownDate(d, c) ==
    \/ d.k \notin {"str", "ts"}
    \/ d.t < c.min_date
    \/ d.t > MaxDateOf(c)

C9_FillIdempotence == pc = "resanitized" => frame = sanitized

C9_Witness ==
    /\ pc = "resanitized"
    /\ \E i, j \in 1..Len(input.rows) :
           /\ input.rows[i].date.k = "str"
           /\ frame.rows[i].date.k = "ts"
           /\ frame.rows[i].days < cfg.cap_days
           /\ input.rows[j].date.k = "bad"
           /\ input.rows[j].amt.k = "bad"
           /\ frame.rows[j].date = NaT

DropUnknown(f) == Frame(f.cols, SelectSeq(f.rows, LAMBDA r : r.date.k # "nat"))

RECURSIVE SumDaily(_, _)
SumDaily(rows, J) ==
    IF J = {} THEN 0
    ELSE LET j == CHOOSE k \in J : TRUE
         IN  rows[j].daily_amount.n + SumDaily(rows, J \ {j})

\* C10: a record whose date is NaT enters no daily aggregate and no monthly
\* total: no output row has an unknown day, the daily amounts of an account
\* sum to its known-date amounts, an account with only unknown dates has no
\* row, and removing the unknown-date records leaves the output the same.
C10_UnknownDatesContributeNothing ==
    (AggReturned /\ WholeAmounts(frame.rows)) =>
        /\ \A j \in 1..Len(agg.rows) : agg.rows[j].day.k = "ts"
        /\ \A a \in AccountSet :
               /\ SumDaily(agg.rows, OutIdx(a))
                      = SumAmounts(frame.rows, KnownIdx(frame.rows, a))
               /\ KnownIdx(frame.rows, a) = {} => OutIdx(a) = {}
        /\ daily_and_monthly_aggregates(DropUnknown(frame), cfg) = agg

C10_Witness ==
    /\ AggReturned
    /\ \E a, b \in AccountSet :
           /\ KnownIdx(frame.rows, a) # {}
           /\ \E i \in 1..Len(frame.rows) :
                  frame.rows[i].acct = a /\ frame.rows[i].date = NaT
           /\ KnownIdx(frame.rows, b) = {}
           /\ \E i \in 1..Len(frame.rows) : frame.rows[i].acct = b
           /\ OutIdx(b) = {}
           /\ OutIdx(a) # {}

====
